---- MODULE Spec2Model ----
(***************************************************************************)
(* De Bruijn graph assembler: DBGnode (src/src/DBGnode.py) and DBGraph     *)
(* (src/src/DBGraph.py).                                                   *)
(*                                                                         *)
(* A k-mer is a sequence of one-letter strings.  DBGnode objects live in   *)
(* `heap`; a node's identity is its position in `heap` (creation order),   *)
(* so the identity-keyed dictionaries edges_to / edges_from are functions  *)
(* from node identities to weights.  In the source edges_to holds the      *)
(* OUTGOING edges (filled from get_potential_to) and edges_from the        *)
(* INCOMING ones.  DBGraph.nodes is an insertion-ordered dictionary and is *)
(* a sequence of [key, node] entries.                                      *)
(***************************************************************************)
EXTENDS Integers, Sequences, FiniteSets, TLC

VARIABLES
    nodes,       \* DBGraph.nodes: the index, a sequence of [key, node]
    heap,        \* the DBGnode objects ever created: [seq, edges_to, edges_from]
    kmerlen,     \* DBGraph.kmerlen
    simplified,  \* DBGraph.simplified
    raised,      \* the exception the last call ended with, "none" if it returned
    calls,       \* the number of add_kmers calls made so far
    pc,          \* "idle" between calls, "simplify" inside simplify()
    snapshot,    \* inside simplify(): list(self.nodes.values())
    pos,         \* inside simplify(): the position of the outer loop in snapshot
    n50,         \* what the last get_N50() call returned, None before it
    call,        \* the last direct call of a DBGnode method: [op, self, ret]
    worked       \* the keys the last add_kmers call had been through when it
                 \* raised, <<>> when it returned (history)

vars == <<nodes, heap, kmerlen, simplified, raised, calls, pc, snapshot, pos,
          n50, call, worked>>

(* ---------------------------- bounds ---------------------------------- *)
\* the number of add_kmers calls of a run
MaxCalls == 2
\* the longest read
MaxReadLen == 4
\* the k-mer length the reads over ReadBases are cut into
KmerSize == 3
\* the contig sets get_N50 is applied to: their size and the longest contig
MaxContigs == 5
MaxContigLen == 6

(* ------------------------- program constants -------------------------- *)
\* DBGnode.get_potential_to / get_potential_from: for base in [...]
Bases == <<"A", "G", "T", "C">>
\* DBGraph.kmerlen before the first k-mer
None == -1

(* ----------------------------- dictionaries --------------------------- *)
EmptyDict == [x \in {} |-> 0]

\* dict.get(k, 0)
Get(d, k) == IF k \in DOMAIN d THEN d[k] ELSE 0

\* d[k] = v
Put(d, k, v) == [x \in (DOMAIN d) \cup {k} |-> IF x = k THEN v ELSE d[x]]

\* d.pop(k, 0) / d.pop(k) on a present key
Del(d, k) == [x \in (DOMAIN d) \ {k} |-> d[x]]

\* key in self.nodes.keys()
HasKey(idx, key) == \E i \in 1..Len(idx) : idx[i].key = key

\* self.nodes[key]
Lookup(idx, key) == idx[CHOOSE i \in 1..Len(idx) : idx[i].key = key].node

\* self.nodes[key] = n   (an existing key keeps its position)
SetKey(idx, key, n) ==
    IF HasKey(idx, key)
    THEN [i \in 1..Len(idx) |-> IF idx[i].key = key
                                THEN [key |-> key, node |-> n] ELSE idx[i]]
    ELSE Append(idx, [key |-> key, node |-> n])

\* self.nodes.pop(key, None)
PopKey(idx, key) == SelectSeq(idx, LAMBDA e : e.key # key)

\* list(self.nodes.values())
Values(idx) == [i \in 1..Len(idx) |-> idx[i].node]

(* ------------------------------ DBGnode ------------------------------- *)
\* DBGnode(seq)
NewNode(seq) == [seq |-> seq, edges_to |-> EmptyDict, edges_from |-> EmptyDict]

\* n.add_edge_to(eto)
add_edge_to(h, n, eto) ==
    [h EXCEPT ![n].edges_to = Put(@, eto, Get(@, eto) + 1)]

\* n.add_edge_from(efrom)
add_edge_from(h, n, efrom) ==
    [h EXCEPT ![n].edges_from = Put(@, efrom, Get(@, efrom) + 1)]

\* n.get_edge_to_weight(other)
get_edge_to_weight(h, n, other) == Get(h[n].edges_to, other)

\* n.get_edge_from_weight(other)
get_edge_from_weight(h, n, other) == Get(h[n].edges_from, other)

\* seq[:-1]
ButLast(s) == SubSeq(s, 1, Len(s) - 1)

\* seq[1:]
Rest(s) == SubSeq(s, 2, Len(s))

\* the four successor candidates, in the order of the source
get_potential_to(seq) == [b \in 1..Len(Bases) |-> Rest(seq) \o <<Bases[b]>>]

\* the four predecessor candidates, in the order of the source
get_potential_from(seq) == [b \in 1..Len(Bases) |-> <<Bases[b]>> \o ButLast(seq)]

(* --------------------------- DBGraph.add_kmers ------------------------ *)
\* for pto in kmer.get_potential_to(): ... (candidates b..4)
RECURSIVE WireTo(_, _, _, _, _)
WireTo(idx, h, kmer, cands, b) ==
    IF b > Len(cands) THEN h
    ELSE IF HasKey(idx, cands[b])
         THEN LET t == Lookup(idx, cands[b])
              IN WireTo(idx, add_edge_to(add_edge_from(h, t, kmer), kmer, t),
                        kmer, cands, b + 1)
         ELSE WireTo(idx, h, kmer, cands, b + 1)

\* for pfrom in kmer.get_potential_from(): ... (candidates b..4)
RECURSIVE WireFrom(_, _, _, _, _)
WireFrom(idx, h, kmer, cands, b) ==
    IF b > Len(cands) THEN h
    ELSE IF HasKey(idx, cands[b])
         THEN LET f == Lookup(idx, cands[b])
              IN WireFrom(idx, add_edge_from(add_edge_to(h, f, kmer), kmer, f),
                          kmer, cands, b + 1)
         ELSE WireFrom(idx, h, kmer, cands, b + 1)

\* the error the length check of add_kmers ends with: building the message
\* evaluates self.kmersize, an attribute DBGraph does not have, so the
\* ValueError is never constructed and AttributeError propagates instead
LengthError == "AttributeError"

\* the for loop of add_kmers over kmers.keys(), from key i on
RECURSIVE add_kmers_loop(_, _, _, _, _)
add_kmers_loop(idx, h, klen, keys, i) ==
    IF i > Len(keys) THEN [nodes |-> idx, heap |-> h, raised |-> "none"]
    ELSE IF Len(keys[i]) # klen
         THEN [nodes |-> idx, heap |-> h, raised |-> LengthError]
    ELSE LET isnew == ~HasKey(idx, keys[i])
             idx1  == IF isnew THEN SetKey(idx, keys[i], Len(h) + 1) ELSE idx
             h1    == IF isnew THEN Append(h, NewNode(keys[i])) ELSE h
             kmer  == Lookup(idx1, keys[i])
             h2    == WireTo(idx1, h1, kmer, get_potential_to(h1[kmer].seq), 1)
             h3    == WireFrom(idx1, h2, kmer, get_potential_from(h2[kmer].seq), 1)
         IN add_kmers_loop(idx1, h3, klen, keys, i + 1)

\* add_kmers without the return on a simplified graph
add_kmers_NoFinalCheck(idx, h, klen, simp, keys) ==
    IF Len(keys) = 0
    THEN [nodes |-> idx, heap |-> h, kmerlen |-> klen, raised |-> "none"]
    ELSE LET k == IF klen = None THEN Len(keys[1]) ELSE klen
             r == add_kmers_loop(idx, h, k, keys, 1)
         IN [nodes |-> r.nodes, heap |-> r.heap, kmerlen |-> k, raised |-> r.raised]

\* add_kmers that undoes its work when the length check raises
add_kmers_Rollback(idx, h, klen, simp, keys) ==
    IF simp \/ Len(keys) = 0
    THEN [nodes |-> idx, heap |-> h, kmerlen |-> klen, raised |-> "none"]
    ELSE LET k == IF klen = None THEN Len(keys[1]) ELSE klen
             r == add_kmers_loop(idx, h, k, keys, 1)
         IN IF r.raised = "none"
            THEN [nodes |-> r.nodes, heap |-> r.heap, kmerlen |-> k, raised |-> "none"]
            ELSE [nodes |-> idx, heap |-> h, kmerlen |-> klen, raised |-> r.raised]

\* DBGraph.add_kmers(kmers) as a function of the graph; keys is
\* list(kmers.keys()) (the counts are never read)
add_kmers(idx, h, klen, simp, keys) ==
    IF simp \/ Len(keys) = 0
    THEN [nodes |-> idx, heap |-> h, kmerlen |-> klen, raised |-> "none"]
    ELSE LET k == IF klen = None THEN Len(keys[1]) ELSE klen
             r == add_kmers_loop(idx, h, k, keys, 1)
         IN [nodes |-> r.nodes, heap |-> r.heap, kmerlen |-> k, raised |-> r.raised]

(* ------------------------------ inputs -------------------------------- *)
\* Read.get_kmers(kmersize), as list(kmers.keys()): the k-mers of the read in
\* the order of their first occurrence (from window i on, after the keys acc)
RECURSIVE get_kmers_from(_, _, _, _)
get_kmers_from(bases, kmersize, i, acc) ==
    IF i > Len(bases) - kmersize + 1 THEN acc
    ELSE LET kmer == SubSeq(bases, i, i + kmersize - 1)
         IN get_kmers_from(bases, kmersize, i + 1,
                IF \E j \in 1..Len(acc) : acc[j] = kmer THEN acc ELSE Append(acc, kmer))

get_kmers(bases, kmersize) == get_kmers_from(bases, kmersize, 1, <<>>)

\* the strings of length n over the letters alphabet
RECURSIVE Strings(_, _)
Strings(alphabet, n) ==
    IF n = 0 THEN {<<>>}
    ELSE {<<a>> \o s : a \in alphabet, s \in Strings(alphabet, n - 1)}

ReadsOver(alphabet) == UNION {Strings(alphabet, n) : n \in 1..MaxReadLen}

\* the letters of the reads that are cut into KmerSize-mers
ReadBases == {"A", "G"}

\* the mappings offered to add_kmers: the k-mer maps of the reads over
\* ReadBases (a read shorter than KmerSize gives the empty mapping), and the
\* 1-mer maps of the reads over all four bases, the graphs in which every
\* candidate of get_potential_to can be present
Mappings ==
    {get_kmers(r, KmerSize) : r \in ReadsOver(ReadBases)}
        \cup {get_kmers(r, 1) : r \in ReadsOver({Bases[b] : b \in 1..Len(Bases)})}

\* the mapping m with the key x put in at position j
InsertAt(m, j, x) == SubSeq(m, 1, j - 1) \o <<x>> \o SubSeq(m, j, Len(m))

\* mappings a caller of add_kmers has mixed from k-mers of two lengths: the
\* KmerSize-mers of a read with one 1-mer among them, after the first key
MixedMappings ==
    UNION {{InsertAt(m, j, <<m[1][1]>>) : j \in 2..(Len(m) + 1)} :
              m \in {get_kmers(r, KmerSize) : r \in ReadsOver(ReadBases)} \ {<<>>}}

\* the keys the loop of add_kmers goes through before the first key whose
\* length is not k
RECURSIVE KeysBefore(_, _, _)
KeysBefore(keys, k, i) ==
    IF i > Len(keys) \/ Len(keys[i]) # k THEN SubSeq(keys, 1, i - 1)
    ELSE KeysBefore(keys, k, i + 1)

(* ----------------------- DBGnode.extend_next -------------------------- *)
\* (n, _), = d.items()
Sole(d) == CHOOSE k \in DOMAIN d : TRUE

\* can_extend_next without the look at the successor's incoming edges
can_extend_next_NoInCheck(h, x) ==
    /\ Cardinality(DOMAIN h[x].edges_to) = 1
    /\ Sole(h[x].edges_to) # x

\* can_extend_next without the test that the successor is another node
can_extend_next_NoSelfCheck(h, x) ==
    /\ Cardinality(DOMAIN h[x].edges_to) = 1
    /\ Cardinality(DOMAIN h[Sole(h[x].edges_to)].edges_from) = 1
    /\ Sole(h[Sole(h[x].edges_to)].edges_from) = x

can_extend_next(h, x) ==
    /\ Cardinality(DOMAIN h[x].edges_to) = 1
    /\ Sole(h[x].edges_to) # x
    /\ Cardinality(DOMAIN h[Sole(h[x].edges_to)].edges_from) = 1
    /\ Sole(h[Sole(h[x].edges_to)].edges_from) = x

\* a.endswith(p)
EndsWith(a, p) ==
    Len(p) <= Len(a) /\ SubSeq(a, Len(a) - Len(p) + 1, Len(a)) = p

Min(a, b) == IF a <= b THEN a ELSE b

\* the scan run upwards: the smallest i whose prefix of b ends a
Overlap_Smallest(a, b) ==
    LET hits == {i \in 1..Min(Len(a), Len(b)) : EndsWith(a, SubSeq(b, 1, i))}
    IN IF hits = {} THEN 0 ELSE CHOOSE i \in hits : \A j \in hits : i <= j

\* the scan for i in range(max_overlap, 0, -1): the first (largest) i whose
\* prefix of b ends a; 0 when none does
Overlap(a, b) ==
    LET hits == {i \in 1..Min(Len(a), Len(b)) : EndsWith(a, SubSeq(b, 1, i))}
    IN IF hits = {} THEN 0 ELSE CHOOSE i \in hits : \A j \in hits : j <= i

\* self.seq + next_node.seq[overlap:]
merged_seq(a, b) == a \o SubSeq(b, Overlap(a, b) + 1, Len(b))

\* Rehome with the incoming side of the moved edge left out
RECURSIVE Rehome_OneSided(_, _, _, _)
Rehome_OneSided(h, x, nx, todo) ==
    IF todo = {} THEN h
    ELSE LET c  == CHOOSE m \in todo : \A n \in todo : m <= n
             w  == h[nx].edges_to[c]
             h1 == [h  EXCEPT ![x].edges_to = Put(@, c, Get(@, c) + w)]
             h2 == [h1 EXCEPT ![c].edges_from = Del(@, nx)]
         IN Rehome_OneSided(h2, x, nx, todo \ {c})

\* Rehome without the pop of next_node from the incoming map of the moved
\* edge's target
RECURSIVE Rehome_NoPop(_, _, _, _)
Rehome_NoPop(h, x, nx, todo) ==
    IF todo = {} THEN h
    ELSE LET c  == CHOOSE m \in todo : \A n \in todo : m <= n
             w  == h[nx].edges_to[c]
             h1 == [h  EXCEPT ![x].edges_to = Put(@, c, Get(@, c) + w)]
             h3 == [h1 EXCEPT ![c].edges_from = Put(@, x, Get(@, x) + w)]
         IN Rehome_NoPop(h3, x, nx, todo \ {c})

\* for eto_next_node, weight in next_node.edges_to.items(): ... over the
\* entries todo.  Each pass writes self.edges_to[c] and c.edges_from of a
\* different c, so the order of the passes does not show in the result.
RECURSIVE Rehome(_, _, _, _)
Rehome(h, x, nx, todo) ==
    IF todo = {} THEN h
    ELSE LET c  == CHOOSE m \in todo : \A n \in todo : m <= n
             w  == h[nx].edges_to[c]
             h1 == [h  EXCEPT ![x].edges_to = Put(@, c, Get(@, c) + w)]
             h2 == [h1 EXCEPT ![c].edges_from = Del(@, nx)]
             h3 == [h2 EXCEPT ![c].edges_from = Put(@, x, Get(@, x) + w)]
         IN Rehome(h3, x, nx, todo \ {c})

\* x.extend_next(): ret is the node returned, 0 for None
extend_next(h, x) ==
    IF ~can_extend_next(h, x) THEN [ret |-> 0, heap |-> h]
    ELSE LET nx == Sole(h[x].edges_to)
             h1 == [h  EXCEPT ![x].seq = merged_seq(@, h[nx].seq)]
             h2 == [h1 EXCEPT ![x].edges_to = Del(@, nx)]
             h3 == Rehome(h2, x, nx, DOMAIN h2[nx].edges_to)
             h4 == [h3 EXCEPT ![nx].edges_to = EmptyDict,
                              ![nx].edges_from = EmptyDict]
         IN [ret |-> nx, heap |-> h4]

(* ----------------------- DBGnode.extend_prev -------------------------- *)
can_extend_prev(h, x) ==
    /\ Cardinality(DOMAIN h[x].edges_from) = 1
    /\ Sole(h[x].edges_from) # x
    /\ Cardinality(DOMAIN h[Sole(h[x].edges_from)].edges_to) = 1
    /\ Sole(h[Sole(h[x].edges_from)].edges_to) = x

\* a.startswith(p)
StartsWith(a, p) == Len(p) <= Len(a) /\ SubSeq(a, 1, Len(p)) = p

\* the scan for i in range(0, max_overlap) of extend_prev: the first i such
\* that self.seq starts with previous_node.seq[i:]; 0 when there is none
PrevOverlap(seq, prev) ==
    LET hits == {i \in 0..(Min(Len(seq), Len(prev)) - 1) :
                    StartsWith(seq, SubSeq(prev, i + 1, Len(prev)))}
    IN IF hits = {} THEN 0 ELSE CHOOSE i \in hits : \A j \in hits : i <= j

\* the error extend_prev ends with once it has set self.seq: the next
\* statement reads self.efroedges_fromm, an attribute DBGnode does not have
NoSuchAttribute == "AttributeError"

\* x.extend_prev(): ret is the node returned, 0 for None or when the call
\* raises.  The statements after the assignment to self.seq (the pop of the
\* edge, the loop over previous_node.edges_from, the two clear()) are never
\* reached.
extend_prev(h, x) ==
    IF ~can_extend_prev(h, x) THEN [ret |-> 0, heap |-> h, raised |-> "none"]
    ELSE LET pv == Sole(h[x].edges_from)
             o  == PrevOverlap(h[x].seq, h[pv].seq)
             h1 == [h EXCEPT ![x].seq = SubSeq(h[pv].seq, 1, o) \o @]
         IN [ret |-> 0, heap |-> h1, raised |-> NoSuchAttribute]

(* -------------------------- DBGraph.simplify -------------------------- *)
\* the next node of the snapshot, from position p on, whose extend_next
\* merges; 0 when every remaining extend_next returns None
NextMerge(h, snap, p) ==
    LET js == {j \in p..Len(snap) : can_extend_next(h, snap[j])}
    IN IF js = {} THEN 0 ELSE CHOOSE j \in js : \A i \in js : j <= i

\* new_nodes = {}; for node in self.nodes.values(): new_nodes[node.seq] = node
RECURSIVE Rebuild(_, _, _, _)
Rebuild(idx, h, i, new) ==
    IF i > Len(idx) THEN new
    ELSE Rebuild(idx, h, i + 1, SetKey(new, h[idx[i].node].seq, idx[i].node))

\* simplify_step with one extend_next per node (an if for the while): after
\* a merge the outer loop moves on to the next node
simplify_step_once(idx, h, snap, p) ==
    LET j == NextMerge(h, snap, p)
    IN IF j = 0
       THEN [done |-> TRUE, nodes |-> Rebuild(idx, h, 1, <<>>), heap |-> h, pos |-> 0]
       ELSE LET r == extend_next(h, snap[j])
            IN [done |-> FALSE, nodes |-> PopKey(idx, r.heap[r.ret].seq),
                heap |-> r.heap, pos |-> j + 1]

\* simplify() from position p of its snapshot up to its next merge (the
\* extend_next that merges and the pop of the returned node), or, when no
\* merge is left, to its return (the index rebuilt)
simplify_step(idx, h, snap, p) ==
    LET j == NextMerge(h, snap, p)
    IN IF j = 0
       THEN [done |-> TRUE, nodes |-> Rebuild(idx, h, 1, <<>>), heap |-> h, pos |-> 0]
       ELSE LET r == extend_next(h, snap[j])
            IN [done |-> FALSE, nodes |-> PopKey(idx, r.heap[r.ret].seq),
                heap |-> r.heap, pos |-> j]

\* simplify() run to its return with the nodes visited in the order snap
RECURSIVE simplify_from(_, _, _, _)
simplify_from(idx, h, snap, p) ==
    LET s == simplify_step(idx, h, snap, p)
    IN IF s.done THEN [nodes |-> s.nodes, heap |-> s.heap]
       ELSE simplify_from(s.nodes, s.heap, snap, s.pos)

\* simplify() as the source runs it: snapshot list(self.nodes.values())
simplify(idx, h) == simplify_from(idx, h, Values(idx), 1)

(* ------------------------- counts ------------------------------------- *)
RECURSIVE SumOut(_, _, _)
SumOut(idx, h, i) ==
    IF i > Len(idx) THEN 0
    ELSE Cardinality(DOMAIN h[idx[i].node].edges_to) + SumOut(idx, h, i + 1)

\* count_edges counting both records of every edge
RECURSIVE SumBoth(_, _, _)
SumBoth(idx, h, i) ==
    IF i > Len(idx) THEN 0
    ELSE Cardinality(DOMAIN h[idx[i].node].edges_to)
         + Cardinality(DOMAIN h[idx[i].node].edges_from) + SumBoth(idx, h, i + 1)

count_edges_BothMaps(idx, h) == SumBoth(idx, h, 1)

count_edges(idx, h) == SumOut(idx, h, 1)

count_nodes(idx) == Len(idx)

(* --------------------------- DBGraph.get_N50 -------------------------- *)
\* the sum of the numbers of a list
RECURSIVE Sum(_, _)
Sum(l, i) == IF i > Len(l) THEN 0 ELSE l[i] + Sum(l, i + 1)

\* sorted(...): ascending, by insertion
RECURSIVE Insert(_, _, _)
Insert(l, x, i) ==
    IF i > Len(l) THEN Append(l, x)
    ELSE IF x < l[i] THEN SubSeq(l, 1, i - 1) \o <<x>> \o SubSeq(l, i, Len(l))
    ELSE Insert(l, x, i + 1)

RECURSIVE Sorted(_, _, _)
Sorted(l, i, acc) ==
    IF i > Len(l) THEN acc ELSE Sorted(l, i + 1, Insert(acc, l[i], 1))

\* list(itertools.accumulate(lengths))
accumulate(l) == [i \in 1..Len(l) |-> Sum(SubSeq(l, 1, i), 1)]

\* the scan with >= for >: the first cumulative sum that reaches the half
RECURSIVE N50_scan_AtLeast(_, _, _, _)
N50_scan_AtLeast(cumSum, lengths, total, i) ==
    IF i > Len(lengths) THEN None
    ELSE IF 2 * cumSum[i] >= total THEN lengths[i]
    ELSE N50_scan_AtLeast(cumSum, lengths, total, i + 1)

\* for cum, L in zip(cumSum, lengths): if cum > half: return L
\* (half = total_length/2 is a float, cum > half iff 2 * cum > total_length);
\* the function falls off its end, returning None, when no sum is above
RECURSIVE N50_scan(_, _, _, _)
N50_scan(cumSum, lengths, total, i) ==
    IF i > Len(lengths) THEN None
    ELSE IF 2 * cumSum[i] > total THEN lengths[i]
    ELSE N50_scan(cumSum, lengths, total, i + 1)

\* len(k) for k in self.nodes: the lengths of the keys, in index order
KeyLengths(idx) == [i \in 1..Len(idx) |-> Len(idx[i].key)]

\* DBGraph.get_N50()
get_N50(idx) ==
    LET total_length == Sum(KeyLengths(idx), 1)
        lengths      == Sorted(KeyLengths(idx), 1, <<>>)
    IN N50_scan(accumulate(lengths), lengths, total_length, 1)

(* ---------------------------- state machine --------------------------- *)
\* no DBGnode method has been called directly
NoCall == [op |-> "none", self |-> 0, ret |-> 0]

Init ==
    /\ nodes = <<>>
    /\ heap = <<>>
    /\ kmerlen = None
    /\ simplified = FALSE
    /\ raised = "none"
    /\ calls = 0
    /\ pc = "idle"
    /\ snapshot = <<>>
    /\ pos = 0
    /\ n50 = None
    /\ call = NoCall
    /\ worked = <<>>

\* graph.add_kmers(kmers)
AddKmers ==
    /\ pc = "idle"
    /\ calls < MaxCalls
    /\ calls' = calls + 1
    /\ \E keys \in Mappings :
         \E r \in {add_kmers(nodes, heap, kmerlen, simplified, keys)} :
            /\ nodes' = r.nodes
            /\ heap' = r.heap
            /\ kmerlen' = r.kmerlen
            /\ raised' = r.raised
            /\ worked' = IF r.raised = "none" THEN <<>>
                         ELSE KeysBefore(keys, r.kmerlen, 1)
    /\ UNCHANGED <<simplified, pc, snapshot, pos, n50, call>>

\* where simplify() stands: a call starts on the idle graph with the
\* snapshot of the index, a running one goes on from pos
CurSnapshot == IF pc = "idle" THEN Values(nodes) ELSE snapshot
CurPos == IF pc = "idle" THEN 1 ELSE pos

\* graph.simplify(), up to and with its next merge
SimplifyMerge ==
    \E s \in {simplify_step(nodes, heap, CurSnapshot, CurPos)} :
       /\ ~s.done
       /\ nodes' = s.nodes
       /\ heap' = s.heap
       /\ snapshot' = CurSnapshot
       /\ pos' = s.pos
       /\ pc' = "simplify"
       /\ raised' = "none"
       /\ UNCHANGED <<kmerlen, simplified, calls, n50, call, worked>>

\* graph.simplify(), from its last merge to its return
SimplifyReturn ==
    \E s \in {simplify_step(nodes, heap, CurSnapshot, CurPos)} :
       /\ s.done
       /\ nodes' = s.nodes
       /\ heap' = s.heap
       /\ simplified' = TRUE
       /\ snapshot' = <<>>
       /\ pos' = 0
       /\ pc' = "idle"
       /\ raised' = "none"
       /\ UNCHANGED <<kmerlen, calls, n50, call, worked>>

Next == AddKmers \/ SimplifyMerge \/ SimplifyReturn

Spec == Init /\ [][Next]_vars

(* --------------------- simplify() run to its return ------------------- *)
\* the graph build_graph leaves for one read: a fresh DBGraph after one
\* add_kmers call
InitBuilt ==
    \E keys \in Mappings :
       \E r \in {add_kmers(<<>>, <<>>, None, FALSE, keys)} :
          /\ nodes = r.nodes
          /\ heap = r.heap
          /\ kmerlen = r.kmerlen
          /\ raised = r.raised
          /\ simplified = FALSE
          /\ calls = 1
          /\ pc = "idle"
          /\ snapshot = <<>>
          /\ pos = 0
          /\ n50 = None
          /\ call = NoCall
          /\ worked = <<>>

NextSimplify == SimplifyMerge \/ SimplifyReturn

\* simplify() is one sequential call: once it can take its next step (a
\* merge, or its return) it takes it
SpecLive == InitBuilt /\ [][NextSimplify]_vars /\ WF_vars(NextSimplify)

(* ------------------- add_kmers on mixed mappings ---------------------- *)
\* graph.add_kmers(kmers) with a mapping of k-mers of two lengths
AddKmersMixed ==
    /\ pc = "idle"
    /\ calls < MaxCalls
    /\ calls' = calls + 1
    /\ \E keys \in MixedMappings :
         \E r \in {add_kmers(nodes, heap, kmerlen, simplified, keys)} :
            /\ nodes' = r.nodes
            /\ heap' = r.heap
            /\ kmerlen' = r.kmerlen
            /\ raised' = r.raised
            /\ worked' = IF r.raised = "none" THEN <<>>
                         ELSE KeysBefore(keys, r.kmerlen, 1)
    /\ UNCHANGED <<simplified, pc, snapshot, pos, n50, call>>

NextMixed == AddKmers \/ AddKmersMixed

SpecMixed == Init /\ [][NextMixed]_vars

(* ------------------- get_N50 on sets of contigs ----------------------- *)
\* a contig of length n, the i-th of its set: its first two letters tell i
Contig(i, n) ==
    [j \in 1..n |-> IF j = 1 THEN Bases[((i - 1) % Len(Bases)) + 1]
                    ELSE IF j = 2 THEN Bases[(((i - 1) \div Len(Bases)) % Len(Bases)) + 1]
                    ELSE Bases[1]]

\* the finalized graph whose contigs have the lengths lens: the index as
\* simplify() rebuilds it, every contig under its own sequence
RECURSIVE ContigIndex(_, _, _)
ContigIndex(lens, i, idx) ==
    IF i > Len(lens) THEN idx
    ELSE ContigIndex(lens, i + 1, SetKey(idx, Contig(i, lens[i]), i))

ContigLengths == UNION {[1..n -> 1..MaxContigLen] : n \in 1..MaxContigs}

InitN50 ==
    \E lens \in ContigLengths :
       /\ nodes = ContigIndex(lens, 1, <<>>)
       /\ heap = [i \in 1..Len(lens) |-> NewNode(Contig(i, lens[i]))]
       /\ kmerlen = 1
       /\ simplified = TRUE
       /\ raised = "none"
       /\ calls = 0
       /\ pc = "idle"
       /\ snapshot = <<>>
       /\ pos = 0
       /\ n50 = None
       /\ call = NoCall
       /\ worked = <<>>

\* graph.get_N50()
GetN50 ==
    /\ pc = "idle"
    /\ n50' = get_N50(nodes)
    /\ UNCHANGED <<nodes, heap, kmerlen, simplified, raised, calls, pc, snapshot, pos,
                   call, worked>>

NextN50 == GetN50

SpecN50 == InitN50 /\ [][NextN50]_vars

(* ------------------ direct calls of DBGnode.extend_prev --------------- *)
\* x.extend_prev() on a node of the graph under construction, called while
\* no exception has ended the run
ExtendPrev ==
    /\ pc = "idle"
    /\ raised = "none"
    /\ \E x \in 1..Len(heap) :
         \E r \in {extend_prev(heap, x)} :
            /\ heap' = r.heap
            /\ raised' = r.raised
            /\ call' = [op |-> "extend_prev", self |-> x, ret |-> r.ret]
    /\ UNCHANGED <<nodes, kmerlen, simplified, calls, pc, snapshot, pos, n50, worked>>

NextPrev == AddKmers \/ ExtendPrev

SpecPrev == Init /\ [][NextPrev]_vars

(* ============================== claims ================================ *)
\* the weight of the edge a -> b as a records it, and as b records it
OutWeight(h, a, b) == get_edge_to_weight(h, a, b)
InWeight(h, a, b) == get_edge_from_weight(h, b, a)

\* a node the merges of simplify() have extended
Extended(h, a) == kmerlen # None /\ Len(h[a].seq) > kmerlen

(* C1: symmetry.  After every add_kmers call and after every merge step of
   simplify(), for every pair of nodes A, B the weight A records for its
   outgoing edge to B equals the weight B records for its incoming edge from
   A (an absent entry counts as 0). *)
C1_Symmetry ==
    \A a, b \in 1..Len(heap) : OutWeight(heap, a, b) = InWeight(heap, a, b)

\* inside simplify(), a node that absorbed its successor and took over an
\* outgoing edge of it
C1_Witness ==
    /\ pc = "simplify"
    /\ \E a, b \in 1..Len(heap) :
         Extended(heap, a) /\ a # b /\ OutWeight(heap, a, b) > 0

(* ------------------------- chains (C2, C3) ---------------------------- *)
\* the nodes of the index
Indexed(idx) == {idx[i].node : i \in 1..Len(idx)}

OutDegree(h, a) == Cardinality(DOMAIN h[a].edges_to)
InDegree(h, a) == Cardinality(DOMAIN h[a].edges_from)

\* the nodes met from node a on by following the single outgoing edges, at
\* most n of them
RECURSIVE Follow(_, _, _)
Follow(h, a, n) ==
    IF n = 1 \/ OutDegree(h, a) # 1 THEN <<a>>
    ELSE <<a>> \o Follow(h, Sole(h[a].edges_to), n - 1)

\* the index holds one non-branching, acyclic chain: no node has more than
\* one incoming or outgoing edge, one node has no incoming edge, and the
\* walk from it meets every node
IsChain(idx, h) ==
    /\ Len(idx) > 0
    /\ \A a \in Indexed(idx) : OutDegree(h, a) <= 1 /\ InDegree(h, a) <= 1
    /\ \E a \in Indexed(idx) :
         /\ InDegree(h, a) = 0
         /\ {Follow(h, a, Len(idx))[i] : i \in 1..Len(Follow(h, a, Len(idx)))}
                = Indexed(idx)

ChainStart(idx, h) == CHOOSE a \in Indexed(idx) : InDegree(h, a) = 0

\* the chain spelled with (k-1)-overlaps: the first k-mer, then the last
\* letter of every k-mer after it
RECURSIVE SpellFrom(_, _, _)
SpellFrom(h, walk, i) ==
    IF i > Len(walk) THEN <<>>
    ELSE <<h[walk[i]].seq[Len(h[walk[i]].seq)]>> \o SpellFrom(h, walk, i + 1)

Spell(idx, h) ==
    LET walk == Follow(h, ChainStart(idx, h), Len(idx))
    IN h[walk[1]].seq \o SpellFrom(h, walk, 2)

\* the sequences of the nodes of the index
NodeSeqs(idx, h) == {h[a].seq : a \in Indexed(idx)}

\* the orders in which a snapshot can be visited
Orders(snap) ==
    {o \in [1..Len(snap) -> 1..Len(snap)] :
        \A i, j \in 1..Len(snap) : i # j => o[i] # o[j]}

Reorder(snap, o) == [i \in 1..Len(snap) |-> snap[o[i]]]

(* C2: when the ingested k-mers form one non-branching, acyclic chain, then
   whatever the order of their ingestion, simplify() leaves exactly one node
   and its sequence is the whole chain spelled with (k-1)-overlaps. *)
C2_ChainCollapses ==
    (pc = "idle" /\ ~simplified /\ IsChain(nodes, heap)) =>
        LET r == simplify(nodes, heap)
        IN /\ Len(r.nodes) = 1
           /\ r.heap[r.nodes[1].node].seq = Spell(nodes, heap)

(* C3: the set of node sequences simplify() ends with (and so the node
   count) is the same for every order in which the snapshot is visited. *)
C3_OrderIndependent ==
    (pc = "idle" /\ ~simplified) =>
        \A o \in Orders(Values(nodes)) :
            LET r == simplify(nodes, heap)
                q == simplify_from(nodes, heap, Reorder(Values(nodes), o), 1)
            IN /\ NodeSeqs(q.nodes, q.heap) = NodeSeqs(r.nodes, r.heap)
               /\ Len(q.nodes) = Len(r.nodes)

(* ------------------------- branches (C4) ------------------------------ *)
\* node a has one incoming edge, from another node whose only outgoing edge
\* it is: the case in which that predecessor's extend_next absorbs a
Absorbable(h, a) ==
    /\ InDegree(h, a) = 1
    /\ Sole(h[a].edges_from) # a
    /\ OutDegree(h, Sole(h[a].edges_from)) = 1

(* C4 as stated: a node with two or more outgoing edges when simplify()
   starts is never merged: after simplify() it is still a node of the graph
   and its sequence is still its original k-mer. *)
C4_BranchKept ==
    (pc = "idle" /\ ~simplified) =>
        \A a \in Indexed(nodes) :
            OutDegree(heap, a) >= 2 =>
                LET r == simplify(nodes, heap)
                IN a \in Indexed(r.nodes) /\ r.heap[a].seq = heap[a].seq

(* C4 amended: a node with two or more outgoing edges when simplify() starts
   is never extended, its sequence stays its original k-mer; it is still a
   node of the graph after simplify() unless it has exactly one incoming
   edge, from another node that has exactly one outgoing edge: then that
   predecessor absorbs it and it leaves the graph. *)
C4_BranchNeverExtended ==
    (pc = "idle" /\ ~simplified) =>
        \A a \in Indexed(nodes) :
            OutDegree(heap, a) >= 2 =>
                LET r == simplify(nodes, heap)
                IN /\ r.heap[a].seq = heap[a].seq
                   /\ a \in Indexed(r.nodes) <=> ~Absorbable(heap, a)

\* a branching node that simplify() removes, absorbed by its predecessor
C4_Witness ==
    /\ pc = "idle" /\ ~simplified
    /\ \E a \in Indexed(nodes) :
         /\ OutDegree(heap, a) >= 2
         /\ Absorbable(heap, a)
         /\ a \notin Indexed(simplify(nodes, heap).nodes)

(* --------------------------- weights (C5) ----------------------------- *)
\* the weight of a -> b, 0 while one of the two nodes does not exist
WeightIn(h, a, b) ==
    IF a <= Len(h) /\ b <= Len(h) THEN OutWeight(h, a, b) ELSE 0

(* C5: one add_kmers call adds exactly 1 to the weight of an edge whose
   overlap it observes, so no call raises the weight of an edge by more
   than 1 (the weight counts the calls that observed the overlap). *)
C5_OnePerCall ==
    [][calls' = calls + 1 =>
        \A a, b \in 1..Len(heap') :
            WeightIn(heap', a, b) <= WeightIn(heap, a, b) + 1]_vars

(* ------------------------- idempotence (C6) --------------------------- *)
(* C6: simplify() called on a graph that simplify() has already finalized
   leaves the node index (keys, nodes, order) and every node's sequence and
   adjacency as they are. *)
C6_Idempotent ==
    [][(simplified /\ calls' = calls) => (nodes' = nodes /\ heap' = heap)]_vars

\* a finalized graph in which simplify() has merged nodes
C6_Witness ==
    /\ simplified /\ pc = "idle"
    /\ \E a \in Indexed(nodes) : Extended(heap, a) /\ OutDegree(heap, a) > 0

(* ------------------------ length mismatch (C7) ------------------------ *)
(* C7: an add_kmers call that meets a k-mer of another length than k ends
   with the ValueError its docstring declares. *)
C7_RaisesValueError == raised # "none" => raised = "ValueError"

(* --------------------------- finalization (C8) ------------------------ *)
(* C8: an add_kmers call on a finalized graph, whatever its mapping, raises
   nothing and leaves the index, the nodes, k and the finalized flag as they
   are; so does a call with the empty mapping on any graph (k stays unset on
   a fresh graph). *)
C8_FinalizedNoOp ==
    /\ [][(simplified /\ calls' = calls + 1) =>
            (UNCHANGED <<nodes, heap, kmerlen, simplified>> /\ raised' = "none")]_vars
    /\ [](pc = "idle" =>
            add_kmers(nodes, heap, kmerlen, simplified, <<>>)
                = [nodes |-> nodes, heap |-> heap, kmerlen |-> kmerlen,
                   raised |-> "none"])

\* every call of the run was made after finalization or with the empty
\* mapping, and the graph is as fresh as before them
C8_Witness ==
    simplified /\ calls = MaxCalls /\ kmerlen = None /\ nodes = <<>>

(* ------------------------ merge correctness (C9) ---------------------- *)
\* the largest i such that the last i letters of a are the first i of b
LargestOverlap(a, b) ==
    CHOOSE i \in 0..Min(Len(a), Len(b)) :
        /\ i > 0 => SubSeq(a, Len(a) - i + 1, Len(a)) = SubSeq(b, 1, i)
        /\ \A j \in (i + 1)..Min(Len(a), Len(b)) :
               SubSeq(a, Len(a) - j + 1, Len(a)) # SubSeq(b, 1, j)

\* the step is a merge of simplify(): x = snapshot'[pos'] absorbs y
MergeOK(x, y) ==
    LET o == LargestOverlap(heap[x].seq, heap[y].seq)
    IN /\ can_extend_next(heap, x)
       /\ heap'[x].seq = heap[x].seq \o SubSeq(heap[y].seq, o + 1, Len(heap[y].seq))
       /\ OutWeight(heap', x, y) = 0 /\ InWeight(heap', x, y) = 0
       /\ OutWeight(heap', y, x) = 0 /\ InWeight(heap', y, x) = 0
       /\ \A c \in DOMAIN heap[y].edges_to :
            /\ OutWeight(heap', x, c)
                 = (IF c = y THEN 0 ELSE OutWeight(heap, x, c)) + heap[y].edges_to[c]
            /\ y \notin DOMAIN heap'[c].edges_from
            /\ InWeight(heap', x, c) = InWeight(heap, x, c) + heap[y].edges_to[c]
       /\ DOMAIN heap'[x].edges_to = DOMAIN heap[y].edges_to
       /\ heap'[y].edges_to = EmptyDict /\ heap'[y].edges_from = EmptyDict
       /\ nodes' = PopKey(nodes, heap[y].seq)

(* C9: a merge step sets X.sequence to X.sequence + Y.sequence[o:] with o
   the largest suffix/prefix overlap (ACGT + CGTA gives ACGTA), leaves no
   edge between X and Y, gives X every former outgoing edge (C, w) of Y with
   w added to X.outgoing[C], removes Y from C.incoming and adds w to
   C.incoming[X], clears both adjacency maps of Y and returns Y (the node
   simplify() then pops from the index). *)
C9_MergeCorrect ==
    /\ [][pc' = "simplify" =>
            MergeOK(snapshot'[pos'], Sole(heap[snapshot'[pos']].edges_to))]_vars
    /\ [](merged_seq(<<"A", "C", "G", "T">>, <<"C", "G", "T", "A">>)
            = <<"A", "C", "G", "T", "A">>)

\* a merge has moved an outgoing edge of the absorbed node to the absorber
C9_Witness ==
    /\ pc = "simplify"
    /\ Extended(heap, snapshot[pos])
    /\ OutDegree(heap, snapshot[pos]) > 0

(* --------------------------- edge bound (C10) ------------------------- *)
(* C10: after any add_kmers calls and any simplify() calls, count_edges() is
   at most 4 * count_nodes(). *)
C10_EdgeBound ==
    pc = "idle" => count_edges(nodes, heap) <= 4 * count_nodes(nodes)

\* the bound is met: every node has all four successors
C10_Witness ==
    /\ pc = "idle" /\ simplified
    /\ count_nodes(nodes) > 0
    /\ count_edges(nodes, heap) = 4 * count_nodes(nodes)

(* ------------------------------ N50 (C11) ----------------------------- *)
\* the total length of the contigs of length L or more
RECURSIVE LengthAtLeast(_, _, _)
LengthAtLeast(idx, L, i) ==
    IF i > Len(idx) THEN 0
    ELSE (IF Len(idx[i].key) >= L THEN Len(idx[i].key) ELSE 0)
             + LengthAtLeast(idx, L, i + 1)

\* the contigs of length L or more hold at least half of the total length
HoldsHalf(idx, L) == 2 * LengthAtLeast(idx, L, 1) >= LengthAtLeast(idx, 0, 1)

(* C11: for every non-empty set of contigs get_N50() returns the largest
   length L such that the contigs of length L or more together hold at least
   half of the total length; for the lengths 2, 3, 4, 5, 6 it returns 5. *)
C11_N50 ==
    /\ (n50 # None /\ nodes # <<>>) =>
          /\ HoldsHalf(nodes, n50)
          /\ \E i \in 1..Len(nodes) : Len(nodes[i].key) = n50
          /\ \A L \in (n50 + 1)..(LengthAtLeast(nodes, 0, 1) + 1) : ~HoldsHalf(nodes, L)
    /\ (nodes # <<>> /\ pc = "idle") => get_N50(nodes) # None
    /\ (n50 # None /\ KeyLengths(nodes) = <<2, 3, 4, 5, 6>>) => n50 = 5

\* get_N50 has answered for the contigs of lengths 2, 3, 4, 5, 6
C11_Witness ==
    n50 = 5 /\ KeyLengths(nodes) = <<2, 3, 4, 5, 6>>

(* ------------------------ merge_backward (C12) ------------------------ *)
\* the step is the mirror of a forward merge: x absorbs its predecessor p
MirrorOK(x, p) ==
    LET o == LargestOverlap(heap[p].seq, heap[x].seq)
    IN /\ heap'[x].seq = SubSeq(heap[p].seq, 1, Len(heap[p].seq) - o) \o heap[x].seq
       /\ OutWeight(heap', p, x) = 0 /\ InWeight(heap', p, x) = 0
       /\ \A c \in DOMAIN heap[p].edges_from :
            /\ InWeight(heap', c, x) = InWeight(heap, c, x) + heap[p].edges_from[c]
            /\ p \notin DOMAIN heap'[c].edges_to
            /\ OutWeight(heap', c, x) = InWeight(heap', c, x)
       /\ heap'[p].edges_to = EmptyDict /\ heap'[p].edges_from = EmptyDict
       /\ call'.ret = p
       /\ raised' = "none"

(* C12: extend_prev is the mirror of extend_next: called on a node for which
   can_extend_prev() holds, with sole predecessor P, it puts the
   non-overlapping prefix of P in front of the node's sequence, removes the
   edge P -> self, re-homes every incoming edge of P onto self with its
   weight (both records of it), clears P's adjacency and returns P. *)
C12_MirrorMerge ==
    [][(calls' = calls /\ call'.op = "extend_prev"
            /\ can_extend_prev(heap, call'.self)) =>
        MirrorOK(call'.self, Sole(heap[call'.self].edges_from))]_vars

(* ------------------------- eviction (C13) ----------------------------- *)
\* the nodes the merges of simplify() return (retire), from position p of
\* the snapshot on
RECURSIVE RetiredFrom(_, _, _, _)
RetiredFrom(idx, h, snap, p) ==
    LET s == simplify_step(idx, h, snap, p)
    IN IF s.done THEN {}
       ELSE {Sole(h[snap[s.pos]].edges_to)} \cup RetiredFrom(s.nodes, s.heap, snap, s.pos)

(* C13: in simplify() every merge is followed at once by the removal of the
   retired node from the index: each merge step lowers the number of nodes of
   the index by exactly one, and no node retired by a merge is in the index
   when simplify() returns. *)
C13_RetiredEvicted ==
    /\ [][pc' = "simplify" => Len(nodes') = Len(nodes) - 1]_vars
    /\ []((pc = "idle" /\ ~simplified) =>
            RetiredFrom(nodes, heap, Values(nodes), 1)
                \cap Indexed(simplify(nodes, heap).nodes) = {})

(* ------------------------- fixed point (C14) -------------------------- *)
\* no node of the index can merge, forward or backward
FixedPoint(idx, h) ==
    \A a \in Indexed(idx) : ~can_extend_next(h, a) /\ ~can_extend_prev(h, a)

\* the snapshot visited from each of its positions on, around and back to
\* it, in index order and against it
Rotations(snap) ==
    {[i \in 1..Len(snap) |-> snap[((i + d - 2) % Len(snap)) + 1]] : d \in 1..Len(snap)}
        \cup {[i \in 1..Len(snap) |-> snap[((d - i + Len(snap)) % Len(snap)) + 1]] :
                  d \in 1..Len(snap)}

(* C14: when simplify() returns, no node of the graph satisfies
   can_extend_next() and none satisfies can_extend_prev(), in whatever order
   the snapshot was visited (the index orders of the reachable graphs and,
   for each, its rotations in both directions). *)
C14_FixedPoint ==
    /\ (pc = "idle" /\ simplified) => FixedPoint(nodes, heap)
    /\ (pc = "idle" /\ ~simplified) =>
          \A snap \in Rotations(Values(nodes)) :
              LET q == simplify_from(nodes, heap, snap, 1)
              IN FixedPoint(q.nodes, q.heap)

\* simplify() has returned on a graph in which it merged nodes and in which
\* a node still has a single successor
C14_Witness ==
    /\ pc = "idle" /\ simplified
    /\ \E a \in Indexed(nodes) : Extended(heap, a)
    /\ \E a \in Indexed(nodes) : OutDegree(heap, a) = 1 /\ Sole(heap[a].edges_to) # a

(* ------------------------- termination (C15) ------------------------- *)
\* the nodes that have an edge
Linked(h) == {a \in 1..Len(h) : OutDegree(h, a) + InDegree(h, a) > 0}

(* C15: simplify() terminates on every graph built by add_kmers, graphs with
   self-loops and cycles included: a simplify() that is running returns,
   every merge takes a node out of the nodes that have edges, and the number
   of merges of a simplify() is at most the number of nodes at its start
   minus one. *)
C15_Terminates ==
    /\ (pc = "simplify") ~> (pc = "idle" /\ simplified)
    /\ [][pc' = "simplify" =>
            Cardinality(Linked(heap')) < Cardinality(Linked(heap))]_vars
    /\ []((pc = "idle" /\ ~simplified /\ nodes # <<>>) =>
            Cardinality(RetiredFrom(nodes, heap, Values(nodes), 1)) <= Len(nodes) - 1)

\* simplify() has returned after merging around a cycle: the node that
\* absorbed the others is left with an edge to itself
C15_Witness ==
    /\ pc = "idle" /\ simplified
    /\ \E a \in Indexed(nodes) :
         Extended(heap, a) /\ a \in DOMAIN heap[a].edges_to

(* ------------------------- index keys (C16) --------------------------- *)
\* every key of the index idx is the sequence of the node stored under it
KeysInSync(idx, h) ==
    \A i \in 1..Len(idx) : idx[i].key = h[idx[i].node].seq

(* C16: whenever add_kmers or simplify() has returned, every key of the
   index equals the sequence of the node stored under it; and inside
   simplify() the removal by sequence that follows a merge (the only access
   by sequence there) is made on an index whose keys all equal their nodes'
   sequences. *)
C16_KeysSynced ==
    /\ [](pc = "idle" => KeysInSync(nodes, heap))
    /\ [][pc' = "simplify" => KeysInSync(nodes, heap')]_vars

(* ------------------------- refused merge (C17) ------------------------ *)
\* node x has another out-degree than 1, or its sole successor is x itself,
\* or that successor has another number of incoming edges than 1
Blocked(h, x) ==
    \/ OutDegree(h, x) # 1
    \/ Sole(h[x].edges_to) = x
    \/ InDegree(h, Sole(h[x].edges_to)) # 1

(* C17: can_extend_next() is false exactly for the nodes with an out-degree
   other than 1, a sole successor that is the node itself, or a successor
   with an incoming edge count other than 1; extend_next() on such a node
   returns None and changes no node's sequence and no adjacency map. *)
C17_RefusedMergeNoChange ==
    \A x \in 1..Len(heap) :
        /\ Blocked(heap, x) <=> ~can_extend_next(heap, x)
        /\ Blocked(heap, x) => extend_next(heap, x) = [ret |-> 0, heap |-> heap]

\* inside simplify(), after a merge: a node with a single successor, another
\* node, that it shares with another predecessor
C17_Witness ==
    /\ pc = "simplify"
    /\ \E x \in 1..Len(heap) :
         /\ OutDegree(heap, x) = 1
         /\ Sole(heap[x].edges_to) # x
         /\ InDegree(heap, Sole(heap[x].edges_to)) >= 2
         /\ extend_next(heap, x).ret = 0

(* ------------------------ closed adjacency (C18) ---------------------- *)
\* the nodes named in an adjacency map of node a
Neighbours(h, a) == (DOMAIN h[a].edges_to) \cup (DOMAIN h[a].edges_from)

\* no node names node y in an adjacency map
Unreferenced(h, y) == \A a \in 1..Len(h) : y \notin Neighbours(h, a)

\* every node named by an indexed node is itself in the index
Closed(idx, h) == \A a \in Indexed(idx) : Neighbours(h, a) \subseteq Indexed(idx)

(* C18: after every merge step and after simplify() no outgoing or incoming
   map contains a node retired by a merge, and every node named in an
   adjacency map of an indexed node is itself in the index. *)
C18_AdjacencyClosed ==
    /\ [][pc' = "simplify" =>
            /\ Unreferenced(heap', Sole(heap[snapshot'[pos']].edges_to))
            /\ \A y \in 1..Len(heap) : Unreferenced(heap, y) => Unreferenced(heap', y)]_vars
    /\ [](Closed(nodes, heap))
    /\ []((pc = "idle" /\ ~simplified) =>
            LET r == simplify(nodes, heap)
            IN /\ Closed(r.nodes, r.heap)
               /\ \A y \in RetiredFrom(nodes, heap, Values(nodes), 1) :
                      Unreferenced(r.heap, y))

\* simplify() has returned and a node that absorbed others has an edge to
\* another node of the index
C18_Witness ==
    /\ pc = "idle" /\ simplified
    /\ \E a \in Indexed(nodes) :
         /\ Extended(heap, a)
         /\ \E b \in DOMAIN heap[a].edges_to : b # a /\ b \in Indexed(nodes)

(* ------------------------- exact overlap (C19) ------------------------ *)
\* for every node, the number of nodes merged into it (those it absorbed and
\* those they had absorbed) by simplify() from position p of the snapshot on
RECURSIVE AbsorbedFrom(_, _, _, _, _)
AbsorbedFrom(idx, h, snap, p, m) ==
    LET s == simplify_step(idx, h, snap, p)
    IN IF s.done THEN m
       ELSE LET x == snap[s.pos]
                y == Sole(h[x].edges_to)
            IN AbsorbedFrom(s.nodes, s.heap, snap, s.pos,
                            [m EXCEPT ![x] = @ + 1 + m[y]])

\* the windows of length k of the sequence seq
Windows(seq, k) == {SubSeq(seq, i, i + k - 1) : i \in 1..(Len(seq) - k + 1)}

\* the k-mers ingested: the keys of the index before simplify()
Ingested(idx) == {idx[i].key : i \in 1..Len(idx)}

(* C19: every merge of simplify() finds an overlap of exactly k-1; after
   simplify() a node into which m nodes were merged has a sequence of length
   k+m that still starts with the node's own k-mer, and every window of
   length k of every node's sequence is a k-mer that was ingested. *)
C19_OverlapExact ==
    /\ [][pc' = "simplify" =>
            Overlap(heap[snapshot'[pos']].seq,
                    heap[Sole(heap[snapshot'[pos']].edges_to)].seq) = kmerlen - 1]_vars
    /\ []((pc = "idle" /\ ~simplified) =>
            LET r == simplify(nodes, heap)
                m == AbsorbedFrom(nodes, heap, Values(nodes), 1,
                                  [a \in 1..Len(heap) |-> 0])
            IN \A a \in Indexed(r.nodes) :
                  /\ Len(r.heap[a].seq) = kmerlen + m[a]
                  /\ SubSeq(r.heap[a].seq, 1, kmerlen) = heap[a].seq
                  /\ Windows(r.heap[a].seq, kmerlen) \subseteq Ingested(nodes))

\* simplify() has returned and a node has absorbed a node that had itself
\* absorbed one: its sequence is two letters longer than its k-mer
C19_Witness ==
    /\ pc = "idle" /\ simplified /\ kmerlen > 1
    /\ \E a \in Indexed(nodes) : Len(heap[a].seq) >= kmerlen + 2

(* --------------------------- no rollback (C20) ------------------------ *)
(* C20: an add_kmers call that a length mismatch aborts is not rolled back:
   the graph is left as a call with only the earlier keys of the mapping
   leaves it (their nodes are in the index, no node is lost, no weight is
   lower than before the call), k is as established, and the two records of
   every edge agree. *)
C20_NoRollback ==
    [][(calls' = calls + 1 /\ raised' # "none") =>
        IF worked' = <<>>
        THEN nodes' = nodes /\ heap' = heap /\ kmerlen' = kmerlen /\ kmerlen # None
        ELSE /\ \E r \in {add_kmers(nodes, heap, kmerlen, simplified, worked')} :
                  r.raised = "none" /\ nodes' = r.nodes /\ heap' = r.heap
             /\ \A i \in 1..Len(worked') : HasKey(nodes', worked'[i])
             /\ SubSeq(nodes', 1, Len(nodes)) = nodes
             /\ \A a \in 1..Len(heap) :
                    \A b \in DOMAIN heap[a].edges_to :
                        OutWeight(heap', a, b) >= OutWeight(heap, a, b)
             /\ kmerlen' = (IF kmerlen = None THEN Len(worked'[1]) ELSE kmerlen)
             /\ \A a \in 1..Len(heap') :
                    /\ \A b \in DOMAIN heap'[a].edges_to :
                           OutWeight(heap', a, b) = InWeight(heap', a, b)
                    /\ \A b \in DOMAIN heap'[a].edges_from :
                           OutWeight(heap', b, a) = InWeight(heap', b, a)]_vars

\* an add_kmers call has raised after it had been through two keys, and the
\* edge between their nodes is there
C20_Witness ==
    /\ raised # "none"
    /\ Len(worked) >= 2
    /\ \E a, b \in 1..Len(heap) :
         /\ heap[a].seq = worked[1] /\ heap[b].seq = worked[2]
         /\ OutWeight(heap, a, b) > 0

====
